---- MODULE Spec2Model ----
(***************************************************************************)
(* Model of cdlist: an intrusive, circular, doubly linked list whose nodes *)
(* (LinkNode) own one pinned heap allocation (Inner) holding the user data *)
(* and the link record (ListHead) with its prev and next pointers.         *)
(*                                                                         *)
(* A link record is identified by the node that embeds it; prev and next   *)
(* map every allocation slot to the record its field points at.  NoPtr is  *)
(* the content of a field that holds no initialised pointer: a field of an *)
(* allocation that does not exist (not yet made by new, or released by     *)
(* drop).                                                                  *)
(***************************************************************************)
EXTENDS Integers, Sequences, FiniteSets

\* ------------------------------------------------------------------ bounds
MaxNodes == 4
MaxVal == 1

Nodes == 1..MaxNodes
NoPtr == 0
Ptr == 0..MaxNodes
Values == 0..MaxVal
Fuel == MaxNodes + 1

\* The value a node is constructed with (the tests construct node i with i).
ValueOf(n) == n % (MaxVal + 1)

\* live : the nodes whose allocation exists (constructed and not yet dropped)
\* prev : ListHead::prev of every slot, next : ListHead::next of every slot
\* data : Inner::data of every slot
\* op   : the last public call, with its receiver (self) and argument (other)
\* pre  : the fields as they were when that call was made
\* out  : the nodes whose data the visitor was handed by the last traversal
\* thr  : for each thread, the public call it is in the middle of: the place
\*        in the code (pc) and the locals (the pointers it has read)
\* race : which threads have made a call, and whether a call was begun while
\*        another was in progress
VARIABLES live, prev, next, data, op, pre, out, thr, race

vars == <<live, prev, next, data, op, pre, out, thr, race>>

\* ----------------------------------------------------------- sequence aids
Range(s) == {s[i] : i \in 1..Len(s)}

Reverse(s) == [i \in 1..Len(s) |-> s[Len(s) + 1 - i]]

NoDup(s) == \A i, j \in 1..Len(s) : s[i] = s[j] => i = j

Without(s, x) == SelectSeq(s, LAMBDA y : y # x)

\* ------------------------------------------------- raw pointer read / write
\* A write through a pointer stores v in the field f of the record p.
write(f, p, v) == IF p \in DOMAIN f /\ p # NoPtr THEN [f EXCEPT ![p] = v] ELSE f

\* The pair of link fields of all records, as one value.
Links == [prev |-> prev, next |-> next]

\* ------------------------------------------------------ ListHead primitives
\* Variant: init_head that writes prev and leaves next as it was.
init_head_prev_only(L, h) ==
    [prev |-> write(L.prev, h, h), next |-> L.next]

\* init_head: prev and next of h point at h itself.
init_head(L, h) ==
    LET self_ptr == h
        p1 == write(L.prev, h, self_ptr)
        n1 == write(L.next, h, self_ptr)
    IN  [prev |-> p1, next |-> n1]

\* Variant: delist that patches prev.next and forgets next.prev.
delist_half(L, h) ==
    [prev |-> L.prev, next |-> write(L.next, L.prev[h], L.next[h])]

\* delist: the neighbours of h are pointed at each other, in the order the
\* code writes them; the fields of h itself keep their stale content.
delist(L, h) ==
    LET p == L.prev[h]
        n == L.next[h]
        n1 == write(L.next, p, n)
        p1 == write(L.prev, n, p)
    IN  [prev |-> p1, next |-> n1]

\* Variant: add that forgets to point the old successor back at other.
add_no_backlink(L, s, o) ==
    LET next_ptr == L.next[s]
    IN  [prev |-> write(L.prev, o, s),
         next |-> write(write(L.next, o, next_ptr), s, o)]

\* Variant: add that puts o before s instead of after it.
add_before(L, s, o) ==
    LET prev_ptr == L.prev[s]
        n1 == write(L.next, o, s)
        p1 == write(L.prev, o, prev_ptr)
        n2 == write(n1, prev_ptr, o)
        p2 == write(p1, s, o)
    IN  [prev |-> p2, next |-> n2]

\* ListHead::add: o is put between s and the record s.next points at.
add(L, s, o) ==
    LET self_ptr == s
        other_ptr == o
        next_ptr == L.next[s]
        p1 == write(L.prev, o, self_ptr)
        n1 == write(L.next, o, next_ptr)
        p2 == write(p1, next_ptr, other_ptr)
        n2 == write(n1, s, other_ptr)
    IN  [prev |-> p2, next |-> n2]

\* ------------------------------------------------ container-of recovery
\* Layout of Inner<T> for a 4-byte T on a 64-bit target: data, padding, then
\* the two pointers of the ListHead.
InnerSize == 24
ListOffset == 8

\* Address of the pinned allocation of node n, and of its embedded record.
AllocAddr(n) == n * InnerSize
ptr(n) == AllocAddr(n) + ListOffset

\* Variant: offset() that forgets the negation.
offset_unnegated == ListOffset

offset == -ListOffset

\* inner()/inner_mut(): address of the allocation that embeds the record at la.
inner(la) == la + offset

\* get()/get_mut(): the node whose data the visitor is handed for record h.
get(h) == IF \E n \in Ptr : AllocAddr(n) = inner(ptr(h))
          THEN CHOOSE n \in Ptr : AllocAddr(n) = inner(ptr(h))
          ELSE NoPtr

\* ---------------------------------------------------------------- traversal
\* The loop of for_each (f = next) and for_each_rev (f = prev): visit this,
\* stop when the following link is self again.  fuel cuts a pass that never
\* comes back to self.
RECURSIVE walk(_, _, _, _)
walk(f, self, this, fuel) ==
    IF fuel = 0 THEN <<>>
    ELSE <<get(this)>> \o
         (IF f[this] = self THEN <<>> ELSE walk(f, self, f[this], fuel - 1))

\* Variant: the loop looks one link too far ahead and stops a node early.
RECURSIVE walk_skip_last(_, _, _, _)
walk_skip_last(f, self, this, fuel) ==
    IF fuel = 0 THEN <<>>
    ELSE <<get(this)>> \o
         (IF f[f[this]] = self THEN <<>>
          ELSE walk_skip_last(f, self, f[this], fuel - 1))

for_each_skip_last(L, m) == walk_skip_last(L.next, m, m, Fuel)

for_each(L, m) == walk(L.next, m, m, Fuel)

\* Variant: for_each_rev that follows next instead of prev.
for_each_rev_forward(L, m) == walk(L.next, m, m, Fuel)

for_each_rev(L, m) == walk(L.prev, m, m, Fuel)

\* ------------------------------------------------------ LinkNode operations
\* Variant: new that leaves the link fields uninitialised.
LinkNode_new_no_init(L, n) == L

LinkNode_new(L, n) == init_head(L, n)

\* Variant: add that delists self as well as other before inserting.
LinkNode_add_delist_both(L, s, o) == add(delist(delist(L, o), s), s, o)

\* Variant: add that inserts other without delisting it first.
LinkNode_add_no_delist(L, s, o) == add(L, s, o)

LinkNode_add(L, s, o) == add(delist(L, o), s, o)

\* Variant: add_to that calls self.add(other).
LinkNode_add_to_swapped(L, s, o) == LinkNode_add(L, s, o)

LinkNode_add_to(L, s, o) == LinkNode_add(L, o, s)

\* Variant: take that reinitialises self without delisting it.
LinkNode_take_no_delist(L, h) == init_head(L, h)

LinkNode_take(L, h) == init_head(delist(L, h), h)

\* Variant: drop that releases the allocation without delisting it.
LinkNode_drop_no_delist(L, d) == L

LinkNode_drop(L, d) == delist(L, d)

\* Release of the allocation of d: its fields stop existing.
release(L, d) ==
    [prev |-> write(L.prev, d, NoPtr), next |-> write(L.next, d, NoPtr)]

\* --------------------------------------------------------- value access
\* The link fields and the values of all allocations, as one value.
Heap == [prev |-> prev, next |-> next, data |-> data]

\* Variant: deref_mut that hands out the wrong field of Inner, so that the
\* caller's write lands in the link record.
LinkNode_deref_mut_wrong_field(H, n, v) ==
    [H EXCEPT !.next = write(H.next, n, v)]

\* DerefMut: the caller writes v through the reference to the data of n.
LinkNode_deref_mut(H, n, v) == [H EXCEPT !.data = write(H.data, n, v)]

\* Deref: a shared reference to the data of n; nothing is written.
LinkNode_deref(H, n) == H

\* The visitor of the iter_mut test, *i += j; j += 1, on the j-th call.
visit(v, j) == (v + j) % (MaxVal + 1)

\* The loop of for_each_mut (f = next) and for_each_rev_mut (f = prev):
\* D is the data after the visitor was run on this and on what follows.
RECURSIVE walk_mut(_, _, _, _, _, _)
walk_mut(f, D, self, this, j, fuel) ==
    IF fuel = 0 THEN D
    ELSE LET D1 == write(D, get(this), visit(D[get(this)], j))
         IN  IF f[this] = self THEN D1
             ELSE walk_mut(f, D1, self, f[this], j + 1, fuel - 1)

\* Variant: for_each_mut that follows prev, as for_each_rev_mut does.
for_each_mut_backward(H, m, j) == walk_mut(H.prev, H.data, m, m, j, Fuel)

for_each_mut(H, m, j) == walk_mut(H.next, H.data, m, m, j, Fuel)

for_each_rev_mut(H, m, j) == walk_mut(H.prev, H.data, m, m, j, Fuel)

\* -------------------------------------------------------------------- state
Threads == {1, 2}

\* A thread that is in no public call.
Idle == [pc |-> "idle", name |-> "none", s |-> NoPtr, o |-> NoPtr,
         p |-> NoPtr, n |-> NoPtr, nx |-> NoPtr, nr |-> NoPtr]

NoCalls == [started |-> {}, overlap |-> FALSE]

Snapshot == [prev |-> prev, next |-> next, live |-> live, data |-> data]

Init ==
    /\ live = {}
    /\ prev = [p \in Ptr |-> NoPtr]
    /\ next = [p \in Ptr |-> NoPtr]
    /\ data = [p \in Ptr |-> 0]
    /\ op = [name |-> "init", self |-> NoPtr, other |-> NoPtr]
    /\ pre = [prev |-> [p \in Ptr |-> NoPtr], next |-> [p \in Ptr |-> NoPtr],
              live |-> {}, data |-> [p \in Ptr |-> 0]]
    /\ out = <<>>
    /\ thr = [t \in Threads |-> Idle]
    /\ race = NoCalls

\* A public call that runs as one step: no thread is left inside it.
Record(name, a, b) ==
    /\ op' = [name |-> name, self |-> a, other |-> b]
    /\ pre' = Snapshot
    /\ UNCHANGED <<thr, race>>

SetLinks(L) ==
    /\ prev' = L.prev
    /\ next' = L.next

New(n, v) ==
    /\ n \in Nodes \ live
    /\ SetLinks(LinkNode_new(Links, n))
    /\ live' = live \cup {n}
    /\ data' = [data EXCEPT ![n] = v]
    /\ Record("new", n, n)
    /\ out' = <<>>

Add(a, b) ==
    /\ a \in live /\ b \in live /\ a # b
    /\ SetLinks(LinkNode_add(Links, a, b))
    /\ Record("add", a, b)
    /\ out' = <<>>
    /\ UNCHANGED <<live, data>>

AddTo(a, b) ==
    /\ a \in live /\ b \in live /\ a # b
    /\ SetLinks(LinkNode_add_to(Links, a, b))
    /\ Record("add_to", a, b)
    /\ out' = <<>>
    /\ UNCHANGED <<live, data>>

Take(h) ==
    /\ h \in live
    /\ SetLinks(LinkNode_take(Links, h))
    /\ Record("take", h, h)
    /\ out' = <<>>
    /\ UNCHANGED <<live, data>>

Drop(d) ==
    /\ d \in live
    /\ SetLinks(release(LinkNode_drop(Links, d), d))
    /\ live' = live \ {d}
    /\ data' = [data EXCEPT ![d] = 0]
    /\ Record("drop", d, d)
    /\ out' = <<>>

ForEach(m) ==
    /\ m \in live
    /\ out' = for_each(Links, m)
    /\ Record("for_each", m, m)
    /\ UNCHANGED <<live, prev, next, data>>

ForEachRev(m) ==
    /\ m \in live
    /\ out' = for_each_rev(Links, m)
    /\ Record("for_each_rev", m, m)
    /\ UNCHANGED <<live, prev, next, data>>

Next ==
    \/ \E n \in Nodes : New(n, ValueOf(n))
    \/ \E a, b \in Nodes : Add(a, b)
    \/ \E a, b \in Nodes : AddTo(a, b)
    \/ \E h \in Nodes : Take(h)
    \/ \E d \in Nodes : Drop(d)
    \/ \E m \in Nodes : ForEach(m)
    \/ \E m \in Nodes : ForEachRev(m)

\* Every finite sequence of public calls on live nodes; the two operands of
\* add and add_to are distinct, as two exclusive borrows must be.
Spec == Init /\ [][Next]_vars

TypeOK ==
    /\ live \subseteq Nodes
    /\ prev \in [Ptr -> Ptr]
    /\ next \in [Ptr -> Ptr]
    /\ data \in [Ptr -> Values]

\* ------------------------------------------------- ring notions of the spec
\* i-fold application of the link function f to m.
RECURSIVE Iter(_, _, _)
Iter(f, m, i) == IF i = 0 THEN m ELSE Iter(f, f[m], i - 1)

\* Length of the cycle of f through m (Fuel when f never comes back to m).
Period(f, m) ==
    IF \E k \in 1..Fuel : Iter(f, m, k) = m
    THEN CHOOSE k \in 1..Fuel :
            /\ Iter(f, m, k) = m
            /\ \A j \in 1..(k - 1) : Iter(f, m, j) # m
    ELSE Fuel

\* The members of the ring of m in link order, beginning with m.
RingSeq(f, m) == [i \in 1..Period(f, m) |-> Iter(f, m, i - 1)]

\* The ring of m as the closure of {m} under the link function.
RECURSIVE Closure(_, _)
Closure(f, S) ==
    LET T == S \cup {f[x] : x \in S}
    IN  IF T = S THEN S ELSE Closure(f, T)

Ring(f, m) == Closure(f, {m})

IsSingleton(L, h) == L.prev[h] = h /\ L.next[h] = h

\* --------------------------------------------------------------- properties

\* C1: ring invariant.  After every public operation, every live link record
\* L has prev and next referring to live records, L.prev.next = L and
\* L.next.prev = L.
RingInvariant ==
    \A l \in live :
        /\ prev[l] \in live
        /\ next[l] \in live
        /\ next[prev[l]] = l
        /\ prev[next[l]] = l

\* A node was destroyed out of a ring of three or more, and a ring of two or
\* more remains.
RingInvariantWitness ==
    /\ op.name = "drop"
    /\ Cardinality(Ring(pre.next, op.self)) >= 3
    /\ \E l \in live : next[l] # l

\* C2: forward ring closure.  for_each from a live node m calls the visitor
\* on each member of the ring of m exactly once, in next-order beginning
\* with m, visits nothing outside that ring, and ends exactly when the next
\* link is m again.
ForwardClosure ==
    op.name = "for_each" =>
        LET m == op.self
        IN  /\ Len(out) >= 1
            /\ out[1] = m
            /\ \A i \in 1..(Len(out) - 1) :
                   out[i + 1] = next[out[i]] /\ next[out[i]] # m
            /\ next[out[Len(out)]] = m
            /\ NoDup(out)
            /\ Range(out) = Ring(next, m)
            /\ out = RingSeq(next, m)

\* A forward pass over a ring of three or more members, begun at a node that
\* is not the lowest slot of the ring, has been made.
ForwardClosureWitness ==
    /\ op.name = "for_each"
    /\ Len(out) >= 3
    /\ \E x \in Range(out) : x < op.self

\* C3: backward order.  for_each_rev from m visits the same set of nodes as
\* for_each from m, and for_each_rev begun at the last node of the forward
\* pass from m yields the reverse of that forward pass.
BackwardOrder ==
    /\ op.name = "for_each_rev" =>
           /\ Range(out) = Range(for_each(Links, op.self))
           /\ out = Reverse(for_each(Links, next[op.self]))
           /\ out = Reverse(RingSeq(next, next[op.self]))
    /\ \A m \in live :
           LET fwd == for_each(Links, m)
           IN  for_each_rev(Links, fwd[Len(fwd)]) = Reverse(fwd)

BackwardOrderWitness ==
    /\ op.name = "for_each_rev"
    /\ Len(out) >= 3
    /\ out # for_each(Links, op.self)

\* Operands of the last splice and the neighbours other had before it.
SpliceA == op.self
SpliceB == op.other
FormerPrev(h) == pre.prev[h]
FormerNext(h) == pre.next[h]

\* The node that followed a once b had been taken out of its former position.
FollowerAfterRemoval(a, b) ==
    IF pre.next[a] = b THEN pre.next[b] ELSE pre.next[a]

\* C4: splice postcondition.  After A.add(B) with A and B distinct live nodes
\* (B a singleton, in another ring, or in the ring of A), B is the immediate
\* successor of A, and the successor of B is the node that followed A once B
\* had been taken out of its former position.
SplicePostcondition ==
    op.name = "add" =>
        LET S == FollowerAfterRemoval(SpliceA, SpliceB)
        IN  /\ next[SpliceA] = SpliceB
            /\ prev[SpliceB] = SpliceA
            /\ next[SpliceB] = S
            /\ prev[S] = SpliceB

\* B was the direct predecessor of A in a ring of three or more members.
SplicePostconditionWitness ==
    /\ op.name = "add"
    /\ pre.prev[SpliceA] = SpliceB
    /\ pre.next[SpliceA] # SpliceB
    /\ next[SpliceA] = SpliceB

\* The parts of C5 that do not speak of the former neighbours of B: the order
\* of all nodes other than B is kept in every ring, B is in exactly one ring
\* and immediately after A, a merge across rings gives the old ring of A with
\* B after A and the old ring of B without B, and a splice within one ring
\* keeps the member set.
SpliceKeepsOrder ==
    LET A == SpliceA
        B == SpliceB
        N == FormerNext(B)
    IN  /\ \A m \in live \ {B} :
               Without(RingSeq(next, m), B) = Without(RingSeq(pre.next, m), B)
        /\ next[A] = B
        /\ NoDup(RingSeq(next, A))
        /\ \A m \in live : (B \in Range(RingSeq(next, m))) <=> (m \in Ring(next, A))
        /\ B \notin Ring(pre.next, A) =>
               /\ RingSeq(next, A) = <<A, B>> \o Tail(RingSeq(pre.next, A))
               /\ N # B => RingSeq(next, N) = Tail(RingSeq(pre.next, B))
        /\ B \in Ring(pre.next, A) => Ring(next, A) = Ring(pre.next, A)

\* C5 as stated: after every splice(A, B) the former neighbours of B are
\* directly linked to each other (and the order of the others is kept).  Read
\* generously: only a B that had two distinct neighbours counts.
SplicePreservesOriginal ==
    op.name = "add" =>
        /\ FormerPrev(SpliceB) # FormerNext(SpliceB) =>
               /\ next[FormerPrev(SpliceB)] = FormerNext(SpliceB)
               /\ prev[FormerNext(SpliceB)] = FormerPrev(SpliceB)
        /\ SpliceKeepsOrder

\* C5 amended: splice(A, B) links the former neighbours of B directly to each
\* other unless B was already the immediate successor of A, in which case no
\* link field changes and B stays between A and its former successor; in
\* every case the order of all other nodes is kept in every ring and B is in
\* exactly one ring, immediately after A.
SplicePreserves ==
    op.name = "add" =>
        /\ (FormerPrev(SpliceB) # SpliceB /\ FormerPrev(SpliceB) # SpliceA) =>
               /\ next[FormerPrev(SpliceB)] = FormerNext(SpliceB)
               /\ prev[FormerNext(SpliceB)] = FormerPrev(SpliceB)
        /\ FormerPrev(SpliceB) = SpliceA =>
               /\ prev = pre.prev
               /\ next = pre.next
        /\ SpliceKeepsOrder

\* B left a ring in which it had two distinct neighbours for the ring of A,
\* and its former neighbours are now linked to each other.
SplicePreservesWitness ==
    /\ op.name = "add"
    /\ FormerPrev(SpliceB) # FormerNext(SpliceB)
    /\ SpliceB \notin Ring(pre.next, SpliceA)
    /\ next[FormerPrev(SpliceB)] = FormerNext(SpliceB)
    /\ RingSeq(next, SpliceA) = <<SpliceA, SpliceB>> \o Tail(RingSeq(pre.next, SpliceA))

\* No node other than b changed the set of other nodes it shares a ring with.
OthersKeepMembership(b) ==
    \A x, y \in live \ {b} : (y \in Ring(next, x)) <=> (y \in Ring(pre.next, x))

\* C6 as stated: every splice(self, other) leaves the ring of self with
\* exactly one more member than before.
SpliceGainsOneOriginal ==
    op.name = "add" =>
        /\ Cardinality(Ring(next, SpliceA)) = Cardinality(Ring(pre.next, SpliceA)) + 1
        /\ OthersKeepMembership(SpliceB)

\* C6 amended: splice(self, other) leaves the ring of self with its former
\* members plus other, which is exactly one more member when other was not
\* already in the ring of self and the same members when it was; no node
\* other than other changes ring membership.
SpliceGainsOne ==
    op.name = "add" =>
        /\ Ring(next, SpliceA) = Ring(pre.next, SpliceA) \cup {SpliceB}
        /\ SpliceB \notin Ring(pre.next, SpliceA) =>
               Cardinality(Ring(next, SpliceA)) =
                   Cardinality(Ring(pre.next, SpliceA)) + 1
        /\ SpliceB \in Ring(pre.next, SpliceA) =>
               Cardinality(Ring(next, SpliceA)) = Cardinality(Ring(pre.next, SpliceA))
        /\ OthersKeepMembership(SpliceB)

\* other came from a ring of two or more into a different ring of two or more.
SpliceGainsOneWitness ==
    /\ op.name = "add"
    /\ SpliceB \notin Ring(pre.next, SpliceA)
    /\ Cardinality(Ring(pre.next, SpliceB)) >= 2
    /\ Cardinality(Ring(next, SpliceA)) >= 3

\* C7: detach postcondition.  After take(h) on a ring of any size, h is a
\* singleton and traversal from h visits only h; the ring h left has its
\* former members without h in the same cyclic order, and the former
\* predecessor and successor of h are linked to each other.
DetachPostcondition ==
    op.name = "take" =>
        LET h == op.self
            P == FormerPrev(h)
            N == FormerNext(h)
        IN  /\ prev[h] = h
            /\ next[h] = h
            /\ for_each(Links, h) = <<h>>
            /\ for_each_rev(Links, h) = <<h>>
            /\ P # h =>
                   /\ next[P] = N
                   /\ prev[N] = P
                   /\ RingSeq(next, N) = Tail(RingSeq(pre.next, h))
                   /\ Ring(next, N) = Ring(pre.next, h) \ {h}
            /\ \A m \in live \ {h} :
                   /\ RingSeq(next, m) = Without(RingSeq(pre.next, m), h)
                   /\ RingSeq(prev, m) = Without(RingSeq(pre.prev, m), h)

\* h was detached from a ring of three or more members.
DetachPostconditionWitness ==
    /\ op.name = "take"
    /\ Cardinality(Ring(pre.next, op.self)) >= 3
    /\ next[op.self] = op.self

\* C8: take on a singleton changes no prev or next field of any record, and
\* take is idempotent: a second take(h) right after take(h) changes nothing.
DetachIdempotent ==
    /\ (op.name = "take" /\ IsSingleton(pre, op.self)) =>
           /\ prev = pre.prev
           /\ next = pre.next
    /\ op.name = "take" => LinkNode_take(Links, op.self) = Links
    /\ \A h \in live :
           LinkNode_take(LinkNode_take(Links, h), h) = LinkNode_take(Links, h)

\* take was called on a singleton while another ring of two or more exists.
DetachIdempotentWitness ==
    /\ op.name = "take"
    /\ IsSingleton(pre, op.self)
    /\ \E l \in live : next[l] # l

\* C9: after drop(d) no live record's prev or next refers to the released
\* allocation of d, and the link state of all remaining nodes is what
\* take(d) would have produced: the rest of d's ring is closed, in its
\* former cyclic order.
DropNoDangling ==
    op.name = "drop" =>
        LET d == op.self
            T == LinkNode_take(pre, d)
        IN  /\ d \notin live
            /\ \A m \in live :
                   /\ prev[m] # d /\ next[m] # d
                   /\ prev[m] \in live /\ next[m] \in live
                   /\ prev[m] = T.prev[m]
                   /\ next[m] = T.next[m]
                   /\ RingSeq(next, m) = Without(RingSeq(pre.next, m), d)
                   /\ next[prev[m]] = m /\ prev[next[m]] = m

\* d was destroyed while it had two distinct neighbours.
DropNoDanglingWitness ==
    /\ op.name = "drop"
    /\ FormerPrev(op.self) # FormerNext(op.self)
    /\ next[FormerPrev(op.self)] = FormerNext(op.self)

\* C10: symmetry.  A.add_to(B) gives every record the prev and next that
\* B.add(A) gives, and afterwards A is the immediate successor of B.
AddToSymmetry ==
    op.name = "add_to" =>
        /\ Links = LinkNode_add([prev |-> pre.prev, next |-> pre.next],
                                op.other, op.self)
        /\ next[op.other] = op.self
        /\ prev[op.self] = op.other

\* A.add_to(B) moved A out of a ring of three or more to follow B.
AddToSymmetryWitness ==
    /\ op.name = "add_to"
    /\ Cardinality(Ring(pre.next, op.self)) >= 3
    /\ pre.next[op.other] # op.self
    /\ next[op.other] = op.self

\* C11: singleton on construction.  new returns a node whose prev and next
\* both refer to itself, so a traversal from it in either direction visits
\* only that node, and it changes no link field of any other record.
SingletonOnConstruction ==
    op.name = "new" =>
        LET n == op.self
        IN  /\ n \in live /\ n \notin pre.live
            /\ prev[n] = n
            /\ next[n] = n
            /\ for_each(Links, n) = <<n>>
            /\ for_each_rev(Links, n) = <<n>>
            /\ \A r \in Nodes \ {n} :
                   prev[r] = pre.prev[r] /\ next[r] = pre.next[r]

\* A node was constructed while a ring of two or more members existed.
SingletonOnConstructionWitness ==
    /\ op.name = "new"
    /\ next[op.self] = op.self
    /\ \E l \in live : next[l] # l

\* Record r has another prev or next than before the last public call.
Changed(r) == prev[r] # pre.prev[r] \/ next[r] # pre.next[r]

\* The records a splice of o after s may write to.
SpliceFrame(s, o) == {s, o, pre.prev[o], pre.next[o], pre.next[s]}

\* C15: frame of the mutating operations.  splice(self, other) leaves prev
\* and next unchanged in every record other than self, other, the former
\* predecessor and successor of other and the former successor of self;
\* detach(h) leaves them unchanged in every record other than h and its
\* former predecessor and successor; neither changes any node's value.
MutationFrame ==
    /\ op.name = "add" =>
           /\ \A r \in Nodes \ SpliceFrame(op.self, op.other) : ~Changed(r)
           /\ data = pre.data
    /\ op.name = "add_to" =>
           /\ \A r \in Nodes \ SpliceFrame(op.other, op.self) : ~Changed(r)
           /\ data = pre.data
    /\ op.name = "take" =>
           /\ \A r \in Nodes \ {op.self, pre.prev[op.self], pre.next[op.self]} :
                  ~Changed(r)
           /\ data = pre.data

\* A singleton was spliced into a ring that has a member outside the frame.
MutationFrameWitness ==
    /\ op.name = "add"
    /\ Changed(op.self)
    /\ \E r \in Ring(next, op.self) : r \notin SpliceFrame(op.self, op.other)

\* C19: splice is idempotent and insensitive to a prior detach.  A second
\* A.add(B) right after A.add(B) changes no prev or next, and B.take()
\* followed by A.add(B) gives the link state of A.add(B) alone.
SpliceIdempotent ==
    /\ op.name = "add" => LinkNode_add(Links, op.self, op.other) = Links
    /\ \A a, b \in live :
           a # b =>
               /\ LinkNode_add(LinkNode_add(Links, a, b), a, b) =
                      LinkNode_add(Links, a, b)
               /\ LinkNode_add(LinkNode_take(Links, b), a, b) =
                      LinkNode_add(Links, a, b)

\* A.add(B) took B out of a ring of three or more and changed the links.
SpliceIdempotentWitness ==
    /\ op.name = "add"
    /\ Cardinality(Ring(pre.next, op.other)) >= 3
    /\ pre.next[op.self] # op.other
    /\ next[op.self] = op.other

\* C20: container recovery.  With the link record at offset_of(Inner, list)
\* inside each allocation, the address inner() computes from the address of
\* the link record of a live node n is the address of the allocation of n, so
\* the visitor is handed the value of the node that embeds the record visited.
ContainerRecovery ==
    /\ \A n \in live :
           /\ inner(ptr(n)) = AllocAddr(n)
           /\ get(n) = n
    /\ op.name = "for_each" =>
           \A i \in 1..Len(out) : out[i] = Iter(next, op.self, i - 1)
    /\ op.name = "for_each_rev" =>
           \A i \in 1..Len(out) : out[i] = Iter(prev, op.self, i - 1)

\* A traversal of a ring of three or more handed out the values of three
\* different allocations.
ContainerRecoveryWitness ==
    /\ op.name = "for_each"
    /\ Len(out) >= 3
    /\ Cardinality({AllocAddr(out[i]) : i \in 1..Len(out)}) >= 3

\* ------------------------------------------- one call from any ring state
\* The link states new and add can build over the node set S: every way of
\* arranging the nodes of S into rings, i.e. every permutation of S as next.
RingConfigs(S) == {f \in [S -> S] : \A x, y \in S : f[x] = f[y] => x = y}

Inverse(f, S) == [y \in S |-> CHOOSE x \in S : f[x] = y]

\* All nodes of S are live, linked by f, and hold the values d.
InitConfig(S, f, d) ==
    LET D == 0..Cardinality(S)
        nx == [p \in D |-> IF p \in S THEN f[p] ELSE NoPtr]
        pv == [p \in D |-> IF p \in S THEN Inverse(f, S)[p] ELSE NoPtr]
        dt == [p \in D |-> IF p \in S THEN d[p] ELSE 0]
    IN  /\ live = S
        /\ next = nx
        /\ prev = pv
        /\ data = dt
        /\ op = [name |-> "init", self |-> NoPtr, other |-> NoPtr]
        /\ pre = [prev |-> pv, next |-> nx, live |-> S, data |-> dt]
        /\ out = <<>>
        /\ thr = [t \in Threads |-> Idle]
        /\ race = NoCalls

\* No public call has been made yet.
Fresh == op.name = "init"

\* ---- one splice from any ring state of MaxNodes + 2 nodes
FrameNodes == 1..(MaxNodes + 2)

InitFrame ==
    \E f \in RingConfigs(FrameNodes) :
        InitConfig(FrameNodes, f, [n \in FrameNodes |-> ValueOf(n)])

NextFrame ==
    \/ \E a, b \in FrameNodes : Fresh /\ Add(a, b)
    \/ \E a, b \in FrameNodes : Fresh /\ AddTo(a, b)

SpecFrame == InitFrame /\ [][NextFrame]_vars

\* The records whose prev or next the last public call changed.
ChangedRecords == {r \in DOMAIN prev : Changed(r)}

\* C14 as stated: one splice changes the link fields of at most four records.
SpliceTouchesFourOriginal ==
    op.name \in {"add", "add_to"} => Cardinality(ChangedRecords) <= 4

\* C14 amended: one splice changes the link fields of at most five records
\* (self, other, the former predecessor and successor of other, and the
\* former successor of self), and of exactly five when self and other are in
\* different rings of three or more members each.
SpliceTouchesFive ==
    /\ op.name \in {"add", "add_to"} => Cardinality(ChangedRecords) <= 5
    /\ (/\ op.name = "add"
        /\ op.other \notin Ring(pre.next, op.self)
        /\ Cardinality(Ring(pre.next, op.self)) >= 3
        /\ Cardinality(Ring(pre.next, op.other)) >= 3)
       => ChangedRecords = SpliceFrame(op.self, op.other)
          /\ Cardinality(ChangedRecords) = 5

\* self and other were in different rings of three members or more, and the
\* splice changed five records.
SpliceTouchesFiveWitness ==
    /\ op.name = "add"
    /\ op.other \notin Ring(pre.next, op.self)
    /\ Cardinality(Ring(pre.next, op.self)) >= 3
    /\ Cardinality(Ring(pre.next, op.other)) >= 3
    /\ Cardinality(ChangedRecords) = 5

\* ---- one value access or traversal from any ring state of MaxNodes - 1
\* nodes holding any values
ValueNodes == 1..(MaxNodes - 1)

InitValues ==
    \E f \in RingConfigs(ValueNodes), d \in [ValueNodes -> Values] :
        InitConfig(ValueNodes, f, d)

SetHeap(H) ==
    /\ prev' = H.prev
    /\ next' = H.next
    /\ data' = H.data

DerefMut(n, v) ==
    /\ n \in live
    /\ SetHeap(LinkNode_deref_mut(Heap, n, v))
    /\ Record("deref_mut", n, v)
    /\ out' = <<>>
    /\ UNCHANGED live

Deref(n) ==
    /\ n \in live
    /\ SetHeap(LinkNode_deref(Heap, n))
    /\ Record("deref", n, n)
    /\ out' = <<>>
    /\ UNCHANGED live

\* for_each_mut with a visitor whose counter starts at j.
ForEachMut(m, j) ==
    /\ m \in live
    /\ data' = for_each_mut(Heap, m, j)
    /\ out' = walk(next, m, m, Fuel)
    /\ Record("for_each_mut", m, j)
    /\ UNCHANGED <<live, prev, next>>

ForEachMutRev(m, j) ==
    /\ m \in live
    /\ data' = for_each_rev_mut(Heap, m, j)
    /\ out' = walk(prev, m, m, Fuel)
    /\ Record("for_each_mut_rev", m, j)
    /\ UNCHANGED <<live, prev, next>>

NextValues ==
    \/ \E n \in ValueNodes, v \in Values : Fresh /\ DerefMut(n, v)
    \/ \E n \in ValueNodes : Fresh /\ Deref(n)
    \/ \E m \in ValueNodes : Fresh /\ ForEach(m)
    \/ \E m \in ValueNodes : Fresh /\ ForEachRev(m)
    \/ \E m \in ValueNodes, j \in Values : Fresh /\ ForEachMut(m, j)
    \/ \E m \in ValueNodes, j \in Values : Fresh /\ ForEachMutRev(m, j)

SpecValues == InitValues /\ [][NextValues]_vars

LinksUnchanged == prev = pre.prev /\ next = pre.next /\ live = pre.live

\* C12: value transparency.  Reading or writing the value of a node through
\* its handle leaves prev and next of every record unchanged, and for_each
\* and for_each_rev leave every value and every link field unchanged.
ValueTransparency ==
    /\ op.name = "deref" => LinksUnchanged /\ data = pre.data
    /\ op.name = "deref_mut" =>
           /\ LinksUnchanged
           /\ data[op.self] = op.other
           /\ \A n \in live \ {op.self} : data[n] = pre.data[n]
    /\ op.name \in {"for_each", "for_each_rev"} =>
           LinksUnchanged /\ data = pre.data

\* The value of a member of a ring of two or more was overwritten with
\* another value.
ValueTransparencyWitness ==
    /\ op.name = "deref_mut"
    /\ data[op.self] # pre.data[op.self]
    /\ next[op.self] # op.self

\* What a mutable pass over the ring sequence R must leave behind: the i-th
\* member holds the visitor's result for its own former value and call i.
VisitedInPlace(R, j) ==
    /\ out = R
    /\ \A i \in 1..Len(R) : data[R[i]] = visit(pre.data[R[i]], j + i - 1)
    /\ \A n \in live \ Range(R) : data[n] = pre.data[n]
    /\ LinksUnchanged

\* The values a forward pass from m reads, in order.
Collect(m) == [i \in 1..Len(for_each(Links, m)) |-> data[for_each(Links, m)[i]]]

\* C13: mutable traversal.  for_each_mut (for_each_mut_rev) from m runs the
\* visitor exactly once on the value of each member of the ring, in
\* next-order (prev-order) from m, writes its result into that member's own
\* value and changes no link field, so a later traversal sees the updated
\* values in the same ring order.
MutableTraversal ==
    /\ op.name = "for_each_mut" =>
           LET R == RingSeq(pre.next, op.self)
           IN  /\ VisitedInPlace(R, op.other)
               /\ for_each(Links, op.self) = R
               /\ Collect(op.self) =
                      [i \in 1..Len(R) |-> visit(pre.data[R[i]], op.other + i - 1)]
    /\ op.name = "for_each_mut_rev" =>
           LET R == RingSeq(pre.prev, op.self)
           IN  /\ VisitedInPlace(R, op.other)
               /\ for_each_rev(Links, op.self) = R

\* A mutable forward pass over a ring of three or more changed a value.
MutableTraversalWitness ==
    /\ op.name = "for_each_mut"
    /\ Len(out) >= 3
    /\ out # RingSeq(prev, op.self)
    /\ data # pre.data

\* ------------------------------------------- public calls, one access a step
\* Each step is one read or one write of a link field, in the order of the
\* code.  s is the record of self, o the record that is delisted.
Busy(t) == thr[t].pc # "idle"

Quiescent == \A t \in Threads : ~Busy(t)

Goto(t, pc) == thr' = [thr EXCEPT ![t].pc = pc]

Return(t) == thr' = [thr EXCEPT ![t] = Idle]

Begin(t, name, s, o, pc) ==
    /\ ~Busy(t)
    /\ thr' = [thr EXCEPT ![t] = [Idle EXCEPT !.pc = pc, !.name = name,
                                              !.s = s, !.o = o]]
    /\ pre' = Snapshot

\* new: the allocation is made with both link fields uninitialised, then
\* init_head runs.
CallNew(t, n, v) ==
    /\ n \in Nodes \ live
    /\ Begin(t, "new", n, n, "i1")
    /\ op' = [name |-> "new", self |-> n, other |-> n]
    /\ live' = live \cup {n}
    /\ data' = [data EXCEPT ![n] = v]
    /\ out' = <<>>
    /\ UNCHANGED <<prev, next>>

CallAdd(t, a, b) ==
    /\ a \in live /\ b \in live /\ a # b
    /\ Begin(t, "add", a, b, "d1")
    /\ op' = [name |-> "add", self |-> a, other |-> b]
    /\ out' = <<>>
    /\ UNCHANGED <<live, prev, next, data>>

\* add_to: other.add(self).
CallAddTo(t, a, b) ==
    /\ a \in live /\ b \in live /\ a # b
    /\ Begin(t, "add_to", b, a, "d1")
    /\ op' = [name |-> "add_to", self |-> a, other |-> b]
    /\ out' = <<>>
    /\ UNCHANGED <<live, prev, next, data>>

CallTake(t, h) ==
    /\ h \in live
    /\ Begin(t, "take", h, h, "d1")
    /\ op' = [name |-> "take", self |-> h, other |-> h]
    /\ out' = <<>>
    /\ UNCHANGED <<live, prev, next, data>>

CallDrop(t, d) ==
    /\ d \in live
    /\ Begin(t, "drop", d, d, "d1")
    /\ op' = [name |-> "drop", self |-> d, other |-> d]
    /\ out' = <<>>
    /\ UNCHANGED <<live, prev, next, data>>

\* Variant: take goes on at the second write of init_head, so the prev field
\* of the detached record is never reset.
AfterDelist_half_init(name) ==
    CASE name = "take" -> "i2"
      [] name \in {"add", "add_to"} -> "a1"
      [] OTHER -> "free"

\* Where each public call goes on once its delist has made its last write.
AfterDelist(name) ==
    CASE name = "take" -> "i1"
      [] name \in {"add", "add_to"} -> "a1"
      [] OTHER -> "free"

\* delist: read prev, read next, write prev.next, write next.prev.
StepDelist(t) ==
    LET c == thr[t]
    IN  /\ \/ /\ c.pc = "d1"
              /\ thr' = [thr EXCEPT ![t].p = prev[c.o], ![t].pc = "d2"]
              /\ UNCHANGED <<prev, next>>
           \/ /\ c.pc = "d2"
              /\ thr' = [thr EXCEPT ![t].n = next[c.o], ![t].pc = "d3"]
              /\ UNCHANGED <<prev, next>>
           \/ /\ c.pc = "d3"
              /\ next' = write(next, c.p, c.n)
              /\ Goto(t, "d4")
              /\ UNCHANGED prev
           \/ /\ c.pc = "d4"
              /\ prev' = write(prev, c.n, c.p)
              /\ Goto(t, AfterDelist(c.name))
              /\ UNCHANGED next
        /\ UNCHANGED <<live, data, op, pre, out>>

\* init_head: write prev, write next; then the call returns.
StepInit(t) ==
    LET c == thr[t]
    IN  /\ \/ /\ c.pc = "i1"
              /\ prev' = write(prev, c.o, c.o)
              /\ Goto(t, "i2")
              /\ UNCHANGED next
           \/ /\ c.pc = "i2"
              /\ next' = write(next, c.o, c.o)
              /\ Return(t)
              /\ UNCHANGED prev
        /\ UNCHANGED <<live, data, op, pre, out>>

\* ListHead::add: read self.next twice (the pointer and the reference), then
\* write other.prev, other.next, next.prev, self.next; then the call returns.
StepInsert(t) ==
    LET c == thr[t]
    IN  /\ \/ /\ c.pc = "a1"
              /\ thr' = [thr EXCEPT ![t].nx = next[c.s], ![t].pc = "a2"]
              /\ UNCHANGED <<prev, next>>
           \/ /\ c.pc = "a2"
              /\ thr' = [thr EXCEPT ![t].nr = next[c.s], ![t].pc = "a3"]
              /\ UNCHANGED <<prev, next>>
           \/ /\ c.pc = "a3"
              /\ prev' = write(prev, c.o, c.s)
              /\ Goto(t, "a4")
              /\ UNCHANGED next
           \/ /\ c.pc = "a4"
              /\ next' = write(next, c.o, c.nx)
              /\ Goto(t, "a5")
              /\ UNCHANGED prev
           \/ /\ c.pc = "a5"
              /\ prev' = write(prev, c.nr, c.o)
              /\ Goto(t, "a6")
              /\ UNCHANGED next
           \/ /\ c.pc = "a6"
              /\ next' = write(next, c.s, c.o)
              /\ Return(t)
              /\ UNCHANGED prev
        /\ UNCHANGED <<live, data, op, pre, out>>

\* drop: after delist the allocation is released; then the call returns.
StepFree(t) ==
    LET c == thr[t]
    IN  /\ c.pc = "free"
        /\ SetLinks(release(Links, c.o))
        /\ live' = live \ {c.o}
        /\ data' = [data EXCEPT ![c.o] = 0]
        /\ Return(t)
        /\ UNCHANGED <<op, pre, out>>

\* ---- one thread making public calls one after the other
NextSteps ==
    \/ \E n \in Nodes : CallNew(1, n, ValueOf(n)) /\ UNCHANGED race
    \/ \E a, b \in Nodes : CallAdd(1, a, b) /\ UNCHANGED race
    \/ \E a, b \in Nodes : CallAddTo(1, a, b) /\ UNCHANGED race
    \/ \E h \in Nodes : CallTake(1, h) /\ UNCHANGED race
    \/ \E d \in Nodes : CallDrop(1, d) /\ UNCHANGED race
    \/ StepDelist(1) /\ UNCHANGED race
    \/ StepInit(1) /\ UNCHANGED race
    \/ StepInsert(1) /\ UNCHANGED race
    \/ StepFree(1) /\ UNCHANGED race

SpecSteps == Init /\ [][NextSteps]_vars

\* A live record whose own prev or next is stale: a neighbour it points at
\* does not point back.
Stale(h) == next[prev[h]] # h \/ prev[next[h]] # h

\* At a public call boundary the step by step run has produced the links the
\* one-step operators give.
StepsAgree ==
    Quiescent =>
        /\ op.name = "new" => Links = LinkNode_new(pre, op.self)
        /\ op.name = "add" => Links = LinkNode_add(pre, op.self, op.other)
        /\ op.name = "add_to" => Links = LinkNode_add_to(pre, op.self, op.other)
        /\ op.name = "take" => Links = LinkNode_take(pre, op.self)
        /\ op.name = "drop" =>
               Links = release(LinkNode_drop(pre, op.self), op.self)

\* C16: delist protocol.  In add, add_to, take and drop the last step of
\* delist(H) is followed at once, before the call returns, by the first step
\* of init_head(H) or of the insert of H, and no live record is stale at a
\* public call boundary.
DelistProtocol ==
    /\ [][\A t \in Threads :
              (thr[t].pc = "d4" /\ thr'[t].pc # "d4") => thr'[t].pc \in {"i1", "a1"}]_vars
    /\ [](Quiescent => \A h \in live : ~Stale(h))

\* ------------------------------------------------ traversal, one step a time
WalkNames == {"for_each", "for_each_mut", "for_each_rev", "for_each_mut_rev"}

\* The link a traversal follows.
WalkField(name) == IF name \in {"for_each", "for_each_mut"} THEN next ELSE prev

\* Variant: the loop compares the following link with this instead of self.
at_end_of_this(f, self, this) == f[this] = this

\* The loop's exit test: the following link is the record the pass began at.
at_end(f, self, this) == f[this] = self

CallWalk(t, name, m) ==
    /\ m \in live
    /\ Begin(t, name, m, m, "visit")
    /\ op' = [name |-> name, self |-> m, other |-> m]
    /\ out' = <<>>
    /\ UNCHANGED <<live, prev, next, data>>

\* One turn of the loop is two steps: the visitor is called on the value of
\* this (and, in the mutable passes, writes to it); then the following link
\* is read and the loop ends or moves on.  A pass of more than Fuel calls is
\* cut off and never returns.
StepWalk(t) ==
    LET c == thr[t]
        f == WalkField(c.name)
    IN  /\ c.name \in WalkNames
        /\ \/ /\ c.pc = "visit"
              /\ Len(out) < Fuel
              /\ out' = Append(out, get(c.o))
              /\ data' = IF c.name \in {"for_each_mut", "for_each_mut_rev"}
                         THEN write(data, get(c.o), visit(data[get(c.o)], Len(out)))
                         ELSE data
              /\ Goto(t, "link")
           \/ /\ c.pc = "link"
              /\ IF at_end(f, c.s, c.o)
                 THEN Return(t)
                 ELSE thr' = [thr EXCEPT ![t].o = f[c.o], ![t].pc = "visit"]
              /\ UNCHANGED <<out, data>>
        /\ UNCHANGED <<live, prev, next, op, pre>>

\* ---- one traversal, step by step, from any ring state of MaxNodes nodes
InitWalk ==
    \E f \in RingConfigs(Nodes) :
        InitConfig(Nodes, f, [n \in Nodes |-> ValueOf(n)])

WalkOn == StepWalk(1) /\ UNCHANGED race

NextWalk ==
    \/ \E m \in Nodes : Fresh /\ CallWalk(1, "for_each", m) /\ UNCHANGED race
    \/ \E m \in Nodes : Fresh /\ CallWalk(1, "for_each_mut", m) /\ UNCHANGED race
    \/ \E m \in Nodes : Fresh /\ CallWalk(1, "for_each_rev", m) /\ UNCHANGED race
    \/ \E m \in Nodes : Fresh /\ CallWalk(1, "for_each_mut_rev", m) /\ UNCHANGED race
    \/ WalkOn

\* A loop that is running keeps running: the thread is never held up.
SpecWalk == InitWalk /\ [][NextWalk]_vars /\ WF_vars(WalkOn)

WalkReturned == ~Fresh /\ Quiescent

\* C17: traversal termination.  Each of the four traversals begun at any
\* live node returns, after exactly as many visitor calls as the ring of that
\* node has members (the visitor changes no link field).
TraversalTerminates ==
    /\ [](Busy(1) => <>WalkReturned)
    /\ [](Len(out) <= Cardinality(Ring(next, op.self)))
    /\ [](WalkReturned => Len(out) = Cardinality(Ring(next, op.self)))

\* A backward mutable pass over a ring of three or more has returned.
TraversalTerminatesWitness ==
    /\ WalkReturned
    /\ op.name = "for_each_mut_rev"
    /\ Len(out) >= 3
    /\ data # pre.data

\* ---------------------------------- two threads without synchronisation
\* Two threads each make one call, take or add, on the records of any ring
\* state; their link reads and writes interleave freely.  LinkNode is neither
\* Send nor Sync, so safe code cannot get here: this is what the marker rules
\* out.
RaceNodes == 1..(MaxNodes - 1)

InitRace ==
    \E f \in RingConfigs(RaceNodes) :
        InitConfig(RaceNodes, f, [n \in RaceNodes |-> ValueOf(n)])

\* Thread t starts its call; the calls overlap when another thread is in the
\* middle of one.  The threads are numbered in the order of their calls.
Start(t) ==
    /\ t \notin race.started
    /\ \A u \in Threads : u < t => u \in race.started
    /\ race' = [started |-> race.started \cup {t},
                overlap |-> race.overlap \/ \E u \in Threads \ {t} : Busy(u)]

NextRace ==
    \/ \E t \in Threads, h \in RaceNodes : Start(t) /\ CallTake(t, h)
    \/ \E t \in Threads, a, b \in RaceNodes : Start(t) /\ CallAdd(t, a, b)
    \/ \E t \in Threads : StepDelist(t) /\ UNCHANGED race
    \/ \E t \in Threads : StepInit(t) /\ UNCHANGED race
    \/ \E t \in Threads : StepInsert(t) /\ UNCHANGED race

SpecRace == InitRace /\ [][NextRace]_vars

\* C18: operations are not safe to interleave.  When the calls of the two
\* threads do not overlap, every live record L has L.prev.next = L and
\* L.next.prev = L once they have returned; when their reads and writes
\* interleave this is not guaranteed (the witness is such an outcome).
AtomicKeepsRing ==
    (Quiescent /\ ~race.overlap) => \A h \in live : ~Stale(h)

\* Both calls have overlapped and returned, and a live record is left with a
\* neighbour that does not point back.
AtomicKeepsRingWitness ==
    /\ Quiescent
    /\ race.overlap
    /\ race.started = Threads
    /\ \E h \in live : Stale(h)

====
